---- MODULE Spec2Model ----
(***************************************************************************)
(* Model of custom_components/groq_whisper_cloud/config_flow.py:           *)
(* validate_input and the two config-flow steps that call it               *)
(* (ConfigFlow.async_step_user, ConfigFlow.async_step_reconfigure).        *)
(*                                                                         *)
(* validate_input has one suspension point (await asyncio.to_thread), so   *)
(* every invocation is two atomic actions: the part up to the await and    *)
(* the part after it.  Its callers are the two steps and, for what is said *)
(* of the function alone, a direct call that may be repeated on the same   *)
(* record.                                                                 *)
(***************************************************************************)
EXTENDS Integers, Sequences, FiniteSets, TLC

\* ------------------------------------------------------------------ bounds
MaxData == 3              \* longest "data" list of a status-200 response
MaxSubmissions == 2       \* form submissions per flow, sequential model
NumFlows == 2             \* flows in flight together, concurrent model
MaxConcSubmissions == 1   \* form submissions per flow, concurrent model

\* --------------------------------------------------------------- constants
None == "None"                       \* what dict.get returns for an absent key
Mask == "<api_key>"
DEFAULT_TEMPERATURE == 0
DEFAULT_PROMPT == ""
DEFAULT_NAME == "GroqCloud Whisper"
SUPPORTED_MODELS == {"whisper-large-v3", "distil-whisper-large-v3-en"}

\* ------------------------------------------------------------------ inputs
ApiKeys == {"gsk_a", "gsk_b"}
Temperatures == {1}
Prompts == {"hello"}
Names == {"My Whisper"}

\* A record is a Python dict: a function whose DOMAIN is the set of keys
\* present.  name, api_key and model are Required by STEP_USER_DATA_SCHEMA;
\* temperature and prompt may be absent.
RequiredPart ==
    [name : Names, api_key : ApiKeys, model : SUPPORTED_MODELS]

Records ==
    RequiredPart
    \cup [name : Names, api_key : ApiKeys, model : SUPPORTED_MODELS,
          temperature : Temperatures]
    \cup [name : Names, api_key : ApiKeys, model : SUPPORTED_MODELS,
          prompt : Prompts]
    \cup [name : Names, api_key : ApiKeys, model : SUPPORTED_MODELS,
          temperature : Temperatures, prompt : Prompts]

\* Records of the concurrent model: the two differ in every field
ConcRecords ==
    { [name |-> "My Whisper", api_key |-> "gsk_a", model |-> "whisper-large-v3"],
      [name |-> "My Whisper", api_key |-> "gsk_b",
       model |-> "distil-whisper-large-v3-en", temperature |-> 1,
       prompt |-> "hello"] }

\* Model descriptors of the remote list: dicts with an id and one more field;
\* two of them have the same id and are different dicts
Descriptors ==
    { [id |-> "whisper-large-v3", owned_by |-> "OpenAI"],
      [id |-> "llama3-8b-8192", owned_by |-> "Meta"],
      [id |-> "llama3-8b-8192", owned_by |-> "Groq"] }

\* the lists over S of length at most n
SeqsUpTo(S, n) == UNION { [1 .. k -> S] : k \in 0 .. n }

\* Bodies of a response: a JSON object with a "data" list, a JSON object
\* without "data", a JSON value that is not an object, or no JSON at all
BodiesUpTo(n) ==
    [json : {"object"}, data : SeqsUpTo(Descriptors, n)]
    \cup { [json |-> "object"], [json |-> "array"], [json |-> "invalid"] }

Bodies == BodiesUpTo(MaxData)

\* Bodies of the responses that are not status 200: the same shapes, with
\* lists of at most one descriptor
ErrorBodies == BodiesUpTo(1)

ErrorStatusCodes == {401, 403, 500}

\* What requests.get does: it raises (transport failure) or returns a response
TransportFailure == [kind |-> "raise"]
Responses ==
    [kind : {"response"}, status_code : {200}, body : Bodies]
    \cup [kind : {"response"}, status_code : ErrorStatusCodes, body : ErrorBodies]
    \cup { TransportFailure }

ConcResponses ==
    { TransportFailure,
      [kind |-> "response", status_code |-> 401, body |-> [json |-> "invalid"]],
      [kind |-> "response", status_code |-> 200,
       body |-> [json |-> "object",
                 data |-> << [id |-> "whisper-large-v3", owned_by |-> "OpenAI"] >>]] }

NoInput == [absent |-> TRUE]         \* user_input is None
NoResponse == [kind |-> "none"]
NoEntry == [missing |-> TRUE]        \* async_get_entry returned None
InitialEntry ==
    [title |-> "My Whisper",
     data |-> [name |-> "My Whisper", api_key |-> "gsk_a",
               model |-> "whisper-large-v3", temperature |-> 0, prompt |-> ""]]

VARIABLES
    kind,          \* kind[f]: the caller of validate_input: the step "user", the
                   \* step "reconfigure", or a "direct" call of the function
    pc,            \* pc[f]: init, form, awaiting, created, updated, aborted,
                   \* raised, returned
    rec,           \* rec[f]: the user_input dict of the flow's current submission
    errors,        \* errors[f]: the errors dict of the handler, a set of <<slot, key>>
    bearer,        \* bearer[f]: credential of the Authorization header last sent
    gets,          \* gets[f]: outbound GETs issued for flow f
    subs,          \* subs[f]: submissions of flow f
    logged,        \* api_key values of the records written to the log sink
    created,       \* entries made by async_create_entry
    config_entry,  \* the entry self.context["entry_id"] names, or NoEntry
    \* history of the current validate_input invocation of each flow
    entryRec,      \* the record on entry
    resp,          \* what the outbound call produced
    outcome,       \* "pending", "ok", or the exception validate_input raised
    parsed,        \* response.json() was called
    \* history across invocations
    prevOutcome,   \* outcome of the caller's previous invocation
    overlapped     \* another invocation was suspended while this one was

vars == << kind, pc, rec, errors, bearer, gets, subs, logged, created,
           config_entry, entryRec, resp, outcome, parsed, prevOutcome,
           overlapped >>

Flows == DOMAIN pc

\* ---------------------------------------------------------- validate_input
Get(data, key) == IF key \in DOMAIN data THEN data[key] ELSE None

Put(data, key, value) ==
    [k \in DOMAIN data \cup {key} |-> IF k = key THEN value ELSE data[k]]

\* data[CONF_API_KEY] = "<api_key>"
MaskApiKey(data) == Put(data, "api_key", Mask)

\* variant: the original key is not put back
RestoreApiKeySkipped(data, obscured_api_key) == data

\* data[CONF_API_KEY] = obscured_api_key
RestoreApiKey(data, obscured_api_key) == Put(data, "api_key", obscured_api_key)

\* variant: the second test is an elif of the first
FillDefaultsElif(data) ==
    IF "temperature" \notin DOMAIN data
    THEN Put(data, "temperature", DEFAULT_TEMPERATURE)
    ELSE IF "prompt" \notin DOMAIN data
         THEN Put(data, "prompt", DEFAULT_PROMPT) ELSE data

\* the two "is None" tests that fill in temperature and prompt
FillDefaults(data) ==
    LET d1 == IF "temperature" \notin DOMAIN data
              THEN Put(data, "temperature", DEFAULT_TEMPERATURE) ELSE data
    IN  IF "prompt" \notin DOMAIN d1
        THEN Put(d1, "prompt", DEFAULT_PROMPT) ELSE d1

\* headers={"Authorization": f"Bearer {data.get(CONF_API_KEY)}", ...}
BearerOf(data) == Get(data, "api_key")

\* variant: the call is issued again after the first attempt
IssueGetRetry(n) == n + 2

\* one requests.get per invocation
IssueGet(n) == n + 1

\* validate_input up to its await: the record as traced, the record as left,
\* and the credential sent
ValidateBegin(data) ==
    LET obscured_api_key == Get(data, "api_key")
        traced == MaskApiKey(data)
        restored == RestoreApiKey(traced, obscured_api_key)
        filled == FillDefaults(restored)
    IN  [traced |-> traced, data |-> filled, bearer |-> BearerOf(filled)]

\* response.json().get("data", [])
DataList(body) == IF "data" \in DOMAIN body THEN body.data ELSE << >>

\* the for loop over the model list, from position i on
RECURSIVE SearchModel(_, _, _)
SearchModel(list, i, model) ==
    IF i > Len(list) THEN "ok"
    ELSE IF list[i].id = model THEN "ok"
    ELSE IF list[i] = list[Len(list)] THEN "WhisperModelNotFound"
    ELSE SearchModel(list, i + 1, model)

\* variant: the body is searched before the status code is looked at
ValidateFinishBodyFirst(data, r) ==
    IF r.kind = "raise" THEN [exc |-> "RequestException", parsed |-> FALSE]
    ELSE IF r.body.json = "invalid" THEN [exc |-> "RequestException", parsed |-> TRUE]
    ELSE IF r.body.json = "array" THEN [exc |-> "AttributeError", parsed |-> TRUE]
    ELSE IF SearchModel(DataList(r.body), 1, Get(data, "model")) # "ok"
         THEN [exc |-> "WhisperModelNotFound", parsed |-> TRUE]
    ELSE IF r.status_code = 401 THEN [exc |-> "InvalidAPIKey", parsed |-> TRUE]
    ELSE IF r.status_code = 403 THEN [exc |-> "UnauthorizedError", parsed |-> TRUE]
    ELSE IF r.status_code # 200 THEN [exc |-> "UnknownError", parsed |-> TRUE]
    ELSE [exc |-> "ok", parsed |-> TRUE]

\* validate_input from its await on: what it raises ("ok": returns normally)
\* and whether it consulted the body.  response.json() raises
\* requests.exceptions.JSONDecodeError, a RequestException, on a body that is
\* not JSON; .get on a JSON value that is not an object is an AttributeError.
ValidateFinish(data, r) ==
    IF r.kind = "raise" THEN [exc |-> "RequestException", parsed |-> FALSE]
    ELSE IF r.status_code = 401 THEN [exc |-> "InvalidAPIKey", parsed |-> FALSE]
    ELSE IF r.status_code = 403 THEN [exc |-> "UnauthorizedError", parsed |-> FALSE]
    ELSE IF r.status_code # 200 THEN [exc |-> "UnknownError", parsed |-> FALSE]
    ELSE IF r.body.json = "invalid" THEN [exc |-> "RequestException", parsed |-> TRUE]
    ELSE IF r.body.json = "array" THEN [exc |-> "AttributeError", parsed |-> TRUE]
    ELSE [exc |-> SearchModel(DataList(r.body), 1, Get(data, "model")),
          parsed |-> TRUE]

\* ------------------------------------------------------------ the handlers
\* the except clauses of async_step_user, in order; "propagate": none matches
UserErrors(exc) ==
    IF exc = "RequestException" THEN { <<"base", "connection_error">> }
    ELSE IF exc = "UnauthorizedError" THEN { <<"base", "unauthorized">> }
    ELSE IF exc = "InvalidAPIKey" THEN { <<"api_key", "invalid_api_key">> }
    ELSE IF exc = "WhisperModelNotFound" THEN { <<"base", "whisper_model_not_found">> }
    ELSE IF exc = "UnknownError" THEN { <<"base", "unknown">> }
    ELSE { <<"propagate", exc>> }

\* variant: the rejected key is reported on the form, not on the field
ReconfigureErrorsOnBase(exc) ==
    IF exc = "InvalidAPIKey" THEN { <<"base", "invalid_api_key">> }
    ELSE UserErrors(exc)

\* the except clauses of async_step_reconfigure, in order
ReconfigureErrors(exc) ==
    IF exc = "RequestException" THEN { <<"base", "connection_error">> }
    ELSE IF exc = "UnauthorizedError" THEN { <<"base", "unauthorized">> }
    ELSE IF exc = "InvalidAPIKey" THEN { <<"api_key", "invalid_api_key">> }
    ELSE IF exc = "WhisperModelNotFound" THEN { <<"base", "whisper_model_not_found">> }
    ELSE IF exc = "UnknownError" THEN { <<"base", "unknown">> }
    ELSE { <<"propagate", exc>> }

\* variant: the entry is written although the model was not found
PersistsUnlisted(exc) == exc \in {"ok", "WhisperModelNotFound"}

\* the try block of a step: the entry is written iff validate_input returned
Persists(exc) == exc = "ok"

\* title=user_input.get(CONF_NAME, DEFAULT_NAME)
TitleOf(data) == IF "name" \in DOMAIN data THEN data.name ELSE DEFAULT_NAME

\* variant: the invocations work on one module-level dict
DataOfShared(recs, f) == recs[CHOOSE g \in DOMAIN recs : TRUE]

\* the dict object an invocation works on: the caller's own user_input
DataOf(recs, f) == recs[f]

\* ------------------------------------------------------------------- Init
InitOver(F, K) ==
    /\ kind \in [F -> K]
    /\ pc = [f \in F |-> "init"]
    /\ rec = [f \in F |-> NoInput]
    /\ errors = [f \in F |-> {}]
    /\ bearer = [f \in F |-> None]
    /\ gets = [f \in F |-> 0]
    /\ subs = [f \in F |-> 0]
    /\ logged = {}
    /\ created = {}
    /\ config_entry \in {NoEntry, InitialEntry}
    /\ entryRec = [f \in F |-> NoInput]
    /\ resp = [f \in F |-> NoResponse]
    /\ outcome = [f \in F |-> "none"]
    /\ parsed = [f \in F |-> FALSE]
    /\ prevOutcome = [f \in F |-> "none"]
    /\ overlapped = [f \in F |-> FALSE]

Init == InitOver({1}, {"user", "reconfigure", "direct"})
InitConc == InitOver(1 .. NumFlows, {"user", "reconfigure"})

\* ---------------------------------------------------------------- actions
\* the part of a step with user input that runs before validate_input's await
Submit(f, user_input) ==
    LET b == ValidateBegin(user_input)
        inflight == { g \in Flows \ {f} : pc[g] = "awaiting" }
    IN  /\ rec' = [rec EXCEPT ![f] = b.data]
        /\ logged' = logged \cup { Get(b.traced, "api_key") }
        /\ bearer' = [bearer EXCEPT ![f] = b.bearer]
        /\ gets' = [gets EXCEPT ![f] = IssueGet(gets[f])]
        /\ subs' = [subs EXCEPT ![f] = subs[f] + 1]
        /\ pc' = [pc EXCEPT ![f] = "awaiting"]
        /\ errors' = [errors EXCEPT ![f] = {}]
        /\ entryRec' = [entryRec EXCEPT ![f] = user_input]
        /\ outcome' = [outcome EXCEPT ![f] = "pending"]
        /\ parsed' = [parsed EXCEPT ![f] = FALSE]
        /\ prevOutcome' = [prevOutcome EXCEPT ![f] = outcome[f]]
        /\ overlapped' = [g \in Flows |->
                            IF g = f THEN inflight # {}
                            ELSE overlapped[g] \/ (g \in inflight)]
        /\ UNCHANGED << kind, created, config_entry >>

\* async_step_user, user_input is None
AsyncStepUserShow(f) ==
    /\ kind[f] = "user"
    /\ pc[f] = "init"
    /\ pc' = [pc EXCEPT ![f] = "form"]
    /\ errors' = [errors EXCEPT ![f] = {}]
    /\ UNCHANGED << kind, rec, bearer, gets, subs, logged, created,
                    config_entry, entryRec, resp, outcome, parsed,
                    prevOutcome, overlapped >>

\* async_step_user, user_input given, up to the await
AsyncStepUserSubmit(f, user_input, cap) ==
    /\ kind[f] = "user"
    /\ pc[f] = "form"
    /\ subs[f] < cap
    /\ Submit(f, user_input)
    /\ resp' = [resp EXCEPT ![f] = NoResponse]

\* history of the invocation that resumes with r
Resumed(f, r, fin) ==
    /\ resp' = [resp EXCEPT ![f] = r]
    /\ outcome' = [outcome EXCEPT ![f] = fin.exc]
    /\ parsed' = [parsed EXCEPT ![f] = fin.parsed]

\* async_step_user from the await on
AsyncStepUserResume(f, r) ==
    /\ kind[f] = "user"
    /\ pc[f] = "awaiting"
    /\ LET data == DataOf(rec, f)
           fin == ValidateFinish(data, r)
           errs == UserErrors(fin.exc)
       IN  /\ Resumed(f, r, fin)
           /\ IF Persists(fin.exc)
              THEN /\ created' = created \cup { [title |-> TitleOf(data), data |-> data] }
                   /\ pc' = [pc EXCEPT ![f] = "created"]
                   /\ UNCHANGED errors
              ELSE /\ UNCHANGED created
                   /\ IF \E e \in errs : e[1] = "propagate"
                      THEN /\ pc' = [pc EXCEPT ![f] = "raised"]
                           /\ UNCHANGED errors
                      ELSE /\ pc' = [pc EXCEPT ![f] = "form"]
                           /\ errors' = [errors EXCEPT ![f] = errs]
    /\ UNCHANGED << kind, rec, bearer, gets, subs, logged, config_entry,
                    entryRec, prevOutcome, overlapped >>

\* async_step_reconfigure, the entry is gone
AsyncStepReconfigureAbort(f) ==
    /\ kind[f] = "reconfigure"
    /\ pc[f] \in {"init", "form"}
    /\ config_entry = NoEntry
    /\ pc' = [pc EXCEPT ![f] = "aborted"]
    /\ UNCHANGED << kind, rec, errors, bearer, gets, subs, logged, created,
                    config_entry, entryRec, resp, outcome, parsed,
                    prevOutcome, overlapped >>

\* async_step_reconfigure, user_input is None
AsyncStepReconfigureShow(f) ==
    /\ kind[f] = "reconfigure"
    /\ pc[f] = "init"
    /\ config_entry # NoEntry
    /\ pc' = [pc EXCEPT ![f] = "form"]
    /\ errors' = [errors EXCEPT ![f] = {}]
    /\ UNCHANGED << kind, rec, bearer, gets, subs, logged, created,
                    config_entry, entryRec, resp, outcome, parsed,
                    prevOutcome, overlapped >>

\* async_step_reconfigure, user_input given, up to the await
AsyncStepReconfigureSubmit(f, user_input, cap) ==
    /\ kind[f] = "reconfigure"
    /\ pc[f] = "form"
    /\ config_entry # NoEntry
    /\ subs[f] < cap
    /\ Submit(f, user_input)
    /\ resp' = [resp EXCEPT ![f] = NoResponse]

\* async_step_reconfigure from the await on
AsyncStepReconfigureResume(f, r) ==
    /\ kind[f] = "reconfigure"
    /\ pc[f] = "awaiting"
    /\ LET data == DataOf(rec, f)
           fin == ValidateFinish(data, r)
           errs == ReconfigureErrors(fin.exc)
       IN  /\ Resumed(f, r, fin)
           /\ IF Persists(fin.exc)
              THEN /\ config_entry' = [title |-> TitleOf(data), data |-> data]
                   /\ pc' = [pc EXCEPT ![f] = "updated"]
                   /\ UNCHANGED errors
              ELSE /\ UNCHANGED config_entry
                   /\ IF \E e \in errs : e[1] = "propagate"
                      THEN /\ pc' = [pc EXCEPT ![f] = "raised"]
                           /\ UNCHANGED errors
                      ELSE /\ pc' = [pc EXCEPT ![f] = "form"]
                           /\ errors' = [errors EXCEPT ![f] = errs]
    /\ UNCHANGED << kind, rec, bearer, gets, subs, logged, created,
                    entryRec, prevOutcome, overlapped >>

\* validate_input called directly on a fresh record, up to the await
DirectCall(f, data) ==
    /\ kind[f] = "direct"
    /\ pc[f] = "init"
    /\ Submit(f, data)
    /\ resp' = [resp EXCEPT ![f] = NoResponse]

\* validate_input called again on the dict the previous call worked on
DirectCallAgain(f, cap) ==
    /\ kind[f] = "direct"
    /\ pc[f] = "returned"
    /\ subs[f] < cap
    /\ Submit(f, DataOf(rec, f))
    /\ UNCHANGED resp

\* validate_input from the await on; a repeated call gets the response of
\* the call before it (the remote answers identically)
DirectReturn(f, r) ==
    /\ kind[f] = "direct"
    /\ pc[f] = "awaiting"
    /\ resp[f] = NoResponse \/ r = resp[f]
    /\ Resumed(f, r, ValidateFinish(DataOf(rec, f), r))
    /\ pc' = [pc EXCEPT ![f] = "returned"]
    /\ UNCHANGED << kind, rec, errors, bearer, gets, subs, logged, created,
                    config_entry, entryRec, prevOutcome, overlapped >>

NextDirect(R, Q, cap) ==
    \/ \E f \in Flows, data \in R : DirectCall(f, data)
    \/ \E f \in Flows : DirectCallAgain(f, cap)
    \/ \E f \in Flows, r \in Q : DirectReturn(f, r)

NextFlows(R, Q, cap) ==
    \/ \E f \in Flows : AsyncStepUserShow(f)
    \/ \E f \in Flows, user_input \in R : AsyncStepUserSubmit(f, user_input, cap)
    \/ \E f \in Flows, r \in Q : AsyncStepUserResume(f, r)
    \/ \E f \in Flows : AsyncStepReconfigureAbort(f)
    \/ \E f \in Flows : AsyncStepReconfigureShow(f)
    \/ \E f \in Flows, user_input \in R : AsyncStepReconfigureSubmit(f, user_input, cap)
    \/ \E f \in Flows, r \in Q : AsyncStepReconfigureResume(f, r)

\* one caller at a time, every record and every response
Next ==
    \/ NextDirect(Records, Responses, MaxSubmissions)
    \/ NextFlows(Records, Responses, MaxSubmissions)
Spec == Init /\ [][Next]_vars

\* several flows in flight together
NextConc == NextFlows(ConcRecords, ConcResponses, MaxConcSubmissions)
SpecConc == InitConc /\ [][NextConc]_vars

\* ------------------------------------------------------------ properties
FiveKinds ==
    {"RequestException", "InvalidAPIKey", "UnauthorizedError", "UnknownError",
     "WhisperModelNotFound"}

\* the invocation of caller f has finished
Done(f) == outcome[f] \notin {"none", "pending"}

\* the invocation of caller f got a status-200 response with a "data" list
Got200List(f) ==
    /\ Done(f)
    /\ resp[f].kind = "response"
    /\ resp[f].status_code = 200
    /\ resp[f].body.json = "object"
    /\ "data" \in DOMAIN resp[f].body

IsStep(f) == kind[f] \in {"user", "reconfigure"}

\* C1: on a status-200 response whose data list holds, at any position, a
\* descriptor with the record's model as id, validate_input returns normally
\* and an absent temperature or prompt holds its default afterwards.
C1_FoundAnywhereSucceeds ==
    \A f \in Flows :
        ( /\ Got200List(f)
          /\ \E i \in DOMAIN resp[f].body.data :
                 resp[f].body.data[i].id = entryRec[f].model )
        => /\ outcome[f] = "ok"
           /\ "temperature" \notin DOMAIN entryRec[f]
                  => Get(rec[f], "temperature") = DEFAULT_TEMPERATURE
           /\ "prompt" \notin DOMAIN entryRec[f]
                  => Get(rec[f], "prompt") = DEFAULT_PROMPT

\* C2: on a status-200 response whose data list holds no descriptor with the
\* record's model as id, the empty list included, validate_input fails with
\* WhisperModelNotFound.
C2_NotListedFails ==
    \A f \in Flows :
        ( /\ Got200List(f)
          /\ \A i \in DOMAIN resp[f].body.data :
                 resp[f].body.data[i].id # entryRec[f].model )
        => outcome[f] = "WhisperModelNotFound"

\* C3: on a non-200 response the status code alone decides the failure
\* (401 InvalidAPIKey, 403 UnauthorizedError, else UnknownError), whatever
\* the record and the body, and the body is never consulted.
C3_StatusAloneDecides ==
    \A f \in Flows :
        ( Done(f) /\ resp[f].kind = "response" /\ resp[f].status_code # 200 )
        => /\ outcome[f] = ( IF resp[f].status_code = 401 THEN "InvalidAPIKey"
                             ELSE IF resp[f].status_code = 403 THEN "UnauthorizedError"
                             ELSE "UnknownError" )
           /\ ~ parsed[f]

C3_Witness ==
    \E f \in Flows :
        /\ Done(f)
        /\ resp[f].kind = "response"
        /\ resp[f].status_code = 500
        /\ resp[f].body.json = "object"
        /\ "data" \in DOMAIN resp[f].body
        /\ \E i \in DOMAIN resp[f].body.data :
               resp[f].body.data[i].id = entryRec[f].model
        /\ outcome[f] = "UnknownError"

\* C4: a transport failure of the outbound call surfaces as a connection
\* error, which is none of the four domain kinds, and a connection error is
\* surfaced only for a transport failure, never when a response came back.
C4_ConnectionErrorIffTransport ==
    \A f \in Flows :
        Done(f) =>
            /\ resp[f].kind = "raise" => outcome[f] = "RequestException"
            /\ outcome[f] = "RequestException" => resp[f].kind = "raise"
            /\ <<"base", "connection_error">> \in errors[f] => resp[f].kind = "raise"

\* C5: in both steps an entry is created or updated only by a submission
\* whose validate_input returned normally; a submission that fails with one
\* of the five kinds writes nothing and ends on the form with errors.
C5_Step ==
    \A f \in Flows :
        /\ ( created' # created \/ config_entry' # config_entry )
              => \E g \in Flows : pc[g] = "awaiting" /\ outcome'[g] = "ok"
        /\ ( pc'[f] \in {"created", "updated"} /\ pc[f] # pc'[f] )
              => pc[f] = "awaiting" /\ outcome'[f] = "ok"
        /\ ( IsStep(f) /\ pc[f] = "awaiting" /\ outcome'[f] \in FiveKinds )
              => /\ created' = created
                 /\ config_entry' = config_entry
                 /\ pc'[f] = "form"
                 /\ errors'[f] # {}

C5_PersistOnlyOnSuccess == [][C5_Step]_vars

C5_Witness ==
    \E f \in Flows :
        /\ pc[f] \in {"created", "updated"}
        /\ prevOutcome[f] \in FiveKinds
        /\ outcome[f] = "ok"

\* C6: only the mask reaches the log; the credential sent is the key the
\* caller supplied and not the mask; the record holds the original key while
\* the call is outstanding and on every exit.
C6_KeyMaskedInLogOnly ==
    /\ logged \subseteq {Mask}
    /\ \A f \in Flows :
         subs[f] > 0 =>
            /\ bearer[f] = Get(entryRec[f], "api_key")
            /\ bearer[f] # Mask
            /\ Get(rec[f], "api_key") = Get(entryRec[f], "api_key")

C6_Witness ==
    /\ logged = {Mask}
    /\ \E f \in Flows :
         /\ Done(f)
         /\ outcome[f] \in FiveKinds
         /\ bearer[f] \in ApiKeys
         /\ Get(rec[f], "api_key") = bearer[f]

\* C7: every submission causes exactly one outbound GET, whatever its
\* outcome, and a failed submission ends on the form with no second call.
C7_OneGetPerSubmission ==
    \A f \in Flows :
        /\ gets[f] = subs[f]
        /\ ( IsStep(f) /\ Done(f) /\ outcome[f] \in FiveKinds ) => pc[f] = "form"

C7_Witness ==
    \E f \in Flows :
        /\ IsStep(f)
        /\ subs[f] = 2
        /\ gets[f] = 2
        /\ pc[f] = "form"
        /\ outcome[f] \in FiveKinds
        /\ prevOutcome[f] \in FiveKinds

\* the slot and message key each failure kind is shown under
ExpectedError(exc) ==
    CASE exc = "InvalidAPIKey" -> <<"api_key", "invalid_api_key">>
      [] exc = "RequestException" -> <<"base", "connection_error">>
      [] exc = "UnauthorizedError" -> <<"base", "unauthorized">>
      [] exc = "WhisperModelNotFound" -> <<"base", "whisper_model_not_found">>
      [] exc = "UnknownError" -> <<"base", "unknown">>

\* C8: in both steps a failure of one of the five kinds leaves exactly one
\* entry in the errors map, InvalidAPIKey on the api_key field and the other
\* four on "base", each with its own message key, and no form shown after a
\* submission has an empty errors map.
C8_OneErrorPerKind ==
    \A f \in Flows :
        IsStep(f) =>
            /\ ( Done(f) /\ outcome[f] \in FiveKinds )
                  => errors[f] = { ExpectedError(outcome[f]) }
            /\ ( pc[f] = "form" /\ subs[f] > 0 ) => Cardinality(errors[f]) = 1

C8_Witness ==
    \E f \in Flows :
        /\ kind[f] = "reconfigure"
        /\ pc[f] = "form"
        /\ outcome[f] = "InvalidAPIKey"
        /\ errors[f] = { <<"api_key", "invalid_api_key">> }

\* C9: a second call of validate_input on the record the first call left,
\* with the same response, ends as the first did (success or the same
\* failure) and leaves the record as the first call left it.
C9_Idempotent ==
    \A f \in Flows :
        ( kind[f] = "direct" /\ subs[f] >= 2 /\ Done(f) )
        => /\ outcome[f] = prevOutcome[f]
           /\ rec[f] = entryRec[f]

C9_Witness ==
    \E f \in Flows :
        /\ kind[f] = "direct"
        /\ subs[f] = 2
        /\ outcome[f] = "ok"
        /\ prevOutcome[f] = "ok"
        /\ Get(rec[f], "temperature") = DEFAULT_TEMPERATURE
        /\ Get(rec[f], "prompt") = DEFAULT_PROMPT

\* C10: with several invocations in flight together, each one's record and
\* classification are what the invocation gives alone on its own record
\* and its own response.
C10_Isolated ==
    \A f \in Flows :
        subs[f] > 0 =>
            /\ rec[f] = ValidateBegin(entryRec[f]).data
            /\ Done(f) =>
                 outcome[f] = ValidateFinish(ValidateBegin(entryRec[f]).data, resp[f]).exc

C10_Witness ==
    \E f, g \in Flows :
        /\ f # g
        /\ overlapped[f] /\ overlapped[g]
        /\ Done(f) /\ Done(g)
        /\ entryRec[f] # entryRec[g]
        /\ resp[f] # resp[g]
        /\ outcome[f] = "ok"
        /\ outcome[g] \in FiveKinds

TypeOK ==
    /\ \A f \in Flows :
         /\ pc[f] \in {"init", "form", "awaiting", "created", "updated", "aborted", "raised", "returned"}
         /\ gets[f] \in 0 .. subs[f]
    /\ logged \subseteq ApiKeys \cup {Mask}
====
